---- MODULE Spec2Model ----
(***************************************************************************)
(* A model of vector.h: RawMemory<T> (a block of raw slots) and Vector<T>  *)
(* (a RawMemory plus the count of live elements).                          *)
(*                                                                         *)
(* A buffer is a sequence of slots; slot i of the C++ code (0-based) is    *)
(* element i + 1 of the sequence.  A slot holds Dead (raw memory, no live  *)
(* object), MovedFrom (a live object that has been moved from) or a value. *)
(* Every elementary operation of the element type that may throw is        *)
(* numbered within one call; the input f of an operation is the number of  *)
(* the elementary operation that throws (0: none does).  Reading a slot    *)
(* that holds no live object is undefined behaviour; it yields the input   *)
(* g, an arbitrary object value.                                           *)
(***************************************************************************)
EXTENDS Integers, Sequences, FiniteSets, TLC

\* Bounds of the model.
MaxCap == 4
NumVals == 2
MaxRhs == 2
MaxAppendCap == 8

Dead == -1
MovedFrom == 0
DefaultVal == 1
Vals == 1..NumVals
Objects == Vals \cup {MovedFrom}

VARIABLES
    nothrow_move,   \* std::is_nothrow_move_constructible_v<T>
    copyable,       \* std::is_copy_constructible_v<T>
    data_,          \* Vector::data_: the slots of the owned RawMemory
    size_,          \* Vector::size_
    op,             \* the operation called last, "none" once the caller has gone on
    arg,            \* its arguments: the count, the index_, the new value
    outcome,        \* "ok", or the place of the last operation that threw
    leaked,         \* live objects left in the storage the last operation released
    rhs             \* the other Vector of the last copy/move, as the operation left it

vars == <<nothrow_move, copyable, data_, size_, op, arg, outcome, leaked, rhs>>

----------------------------------------------------------------------------
\* RawMemory

Allocate(n) == [i \in 1..n |-> Dead]

Capacity == Len(data_)

LiveCount(buf) == Cardinality({i \in 1..Len(buf) : buf[i] # Dead})

\* What a read of a slot yields: its object, or g for raw memory.
Load(s, g) == IF s = Dead THEN g ELSE s

\* The slot after an assignment of value v to it / after being moved from.
Stored(s, v) == IF s = Dead THEN Dead ELSE v

NoVector == [data |-> <<>>, size |-> 0]

----------------------------------------------------------------------------
\* The standard algorithms the Vector uses, on slots [first, first + n).

destroy_n(buf, first, n) ==
    [i \in 1..Len(buf) |-> IF i - 1 \in first..(first + n - 1) THEN Dead ELSE buf[i]]

\* Copy-constructs n objects; when the f-th copy throws, the f - 1 objects
\* already constructed are destroyed.
uninitialized_copy_n(src, first, n, dst, d_first, f, g) ==
    IF f \in 1..n
    THEN [thrown |-> TRUE, src |-> src, dst |-> destroy_n(dst, d_first, f - 1)]
    ELSE [thrown |-> FALSE, src |-> src,
          dst |-> [i \in 1..Len(dst) |->
                     IF i - 1 \in d_first..(d_first + n - 1)
                     THEN Load(src[i - d_first + first], g)
                     ELSE dst[i]]]

\* Move-constructs n objects; a move throws only when T's move may throw.
\* When the f-th move throws, the f - 1 sources already moved stay moved-from
\* and the objects already constructed are destroyed.
uninitialized_move_n(src, first, n, dst, d_first, f, g) ==
    LET thrown == f \in 1..n /\ ~nothrow_move
        m == IF thrown THEN f - 1 ELSE n
    IN [thrown |-> thrown,
        src |-> [i \in 1..Len(src) |->
                   IF i - 1 \in first..(first + m - 1)
                   THEN Stored(src[i], MovedFrom) ELSE src[i]],
        dst |-> IF thrown
                THEN destroy_n(dst, d_first, m)
                ELSE [i \in 1..Len(dst) |->
                        IF i - 1 \in d_first..(d_first + n - 1)
                        THEN Load(src[i - d_first + first], g)
                        ELSE dst[i]]]

\* Value-constructs n objects; when the f-th throws, those constructed are destroyed.
uninitialized_value_construct_n(dst, d_first, n, f) ==
    IF f \in 1..n
    THEN [thrown |-> TRUE, dst |-> destroy_n(dst, d_first, f - 1)]
    ELSE [thrown |-> FALSE,
          dst |-> [i \in 1..Len(dst) |->
                     IF i - 1 \in d_first..(d_first + n - 1) THEN DefaultVal ELSE dst[i]]]

\* Copy-assigns n objects front to back; the assignments made before the
\* f-th one throws stay made.
copy_n(src, first, n, dst, d_first, f, g) ==
    LET thrown == f \in 1..n
        m == IF thrown THEN f - 1 ELSE n
    IN [thrown |-> thrown,
        dst |-> [i \in 1..Len(dst) |->
                   IF i - 1 \in d_first..(d_first + m - 1)
                   THEN Stored(dst[i], Load(src[i - d_first + first], g))
                   ELSE dst[i]]]

\* *d = std::move(*s) within one buffer.
MoveAssign(buf, s, d, g) ==
    [i \in 1..Len(buf) |->
       IF i - 1 = d THEN Stored(buf[i], Load(buf[s + 1], g))
       ELSE IF i - 1 = s THEN Stored(buf[i], MovedFrom)
       ELSE buf[i]]

\* std::move_backward(first, last, d_last): move-assigns back to front.
RECURSIVE move_backward(_, _, _, _, _, _)
move_backward(buf, first, last, d_last, f, g) ==
    IF first >= last THEN [thrown |-> FALSE, buf |-> buf]
    ELSE IF f = 1 /\ ~nothrow_move THEN [thrown |-> TRUE, buf |-> buf]
    ELSE move_backward(MoveAssign(buf, last - 1, d_last - 1, g), first, last - 1,
                       d_last - 1, IF f = 0 THEN 0 ELSE f - 1, g)

\* std::move(first, last, d_first): move-assigns front to back.
RECURSIVE move(_, _, _, _, _, _)
move(buf, first, last, d_first, f, g) ==
    IF first >= last THEN [thrown |-> FALSE, buf |-> buf]
    ELSE IF f = 1 /\ ~nothrow_move THEN [thrown |-> TRUE, buf |-> buf]
    ELSE move(MoveAssign(buf, first, d_first, g), first + 1, last,
              d_first + 1, IF f = 0 THEN 0 ELSE f - 1, g)

----------------------------------------------------------------------------
\* Vector

\* The branch of the constexpr if: TRUE moves, FALSE copies.
UsesMove == nothrow_move \/ ~copyable

\* Mutant: moves whatever the element type.
MoveOrCopyData_AlwaysMove(data, new_data, size, f, g) ==
    uninitialized_move_n(data, 0, size, new_data, 0, f, g)

\* Mutant: transfers the elements in reverse order.
MoveOrCopyData_Reversed(data, new_data, size, f, g) ==
    LET t == IF UsesMove
             THEN uninitialized_move_n(data, 0, size, new_data, 0, f, g)
             ELSE uninitialized_copy_n(data, 0, size, new_data, 0, f, g)
    IN IF t.thrown
       THEN t
       ELSE [t EXCEPT !.dst = [i \in 1..Len(t.dst) |->
                                 IF i <= size THEN t.dst[size + 1 - i] ELSE t.dst[i]]]

MoveOrCopyData(data, new_data, size, f, g) ==
    IF UsesMove
    THEN uninitialized_move_n(data, 0, size, new_data, 0, f, g)
    ELSE uninitialized_copy_n(data, 0, size, new_data, 0, f, g)

\* The result of an operation: the Vector's members after it, how it ended
\* ("ok", or the place that threw) and the live objects left in the storage
\* it released.
Result(data, size, how, lost) ==
    [data |-> data, size |-> size, outcome |-> how, leaked |-> lost]

\* ~Vector: destroys the size live elements; the storage is released after it.
Destroy(data, size) == destroy_n(data, 0, size)

\* Mutant: destroys the old elements before the transfer is known to succeed.
Reserve_DestroysOnFailure(data, size, new_capacity, f, g) ==
    IF new_capacity <= Len(data)
    THEN Result(data, size, "ok", 0)
    ELSE LET t == MoveOrCopyData(data, Allocate(new_capacity), size, f, g)
             old == destroy_n(t.src, 0, size)
         IN IF t.thrown
            THEN Result(old, size, "transfer", LiveCount(t.dst))
            ELSE Result(t.dst, size, "ok", LiveCount(old))

\* Mutant: grows to at least twice the capacity, as an append does.
Reserve_AtLeastDoubles(data, size, new_capacity, f, g) ==
    IF new_capacity <= Len(data)
    THEN Result(data, size, "ok", 0)
    ELSE LET wanted == IF new_capacity < 2 * Len(data) THEN 2 * Len(data) ELSE new_capacity
             t == MoveOrCopyData(data, Allocate(wanted), size, f, g)
         IN IF t.thrown
            THEN Result(t.src, size, "transfer", LiveCount(t.dst))
            ELSE LET old == destroy_n(t.src, 0, size)
                 IN Result(t.dst, size, "ok", LiveCount(old))

Reserve(data, size, new_capacity, f, g) ==
    IF new_capacity <= Len(data)
    THEN Result(data, size, "ok", 0)
    ELSE LET t == MoveOrCopyData(data, Allocate(new_capacity), size, f, g)
         IN IF t.thrown
            THEN Result(t.src, size, "transfer", LiveCount(t.dst))
            ELSE LET old == destroy_n(t.src, 0, size)
                 IN Result(t.dst, size, "ok", LiveCount(old))

\* Mutant: constructs the new elements without reserving room for them.
Resize_NoReserve(data, size, new_size, f, g) ==
    IF new_size < size
    THEN Result(destroy_n(data, new_size, size - new_size), new_size, "ok", 0)
    ELSE LET c == uninitialized_value_construct_n(data, size, new_size - size, f)
         IN IF c.thrown
            THEN Result(c.dst, size, "value", 0)
            ELSE Result(c.dst, new_size, "ok", 0)

\* Mutant: a shrinking Resize only lowers the size.
Resize_ShrinkKeepsTail(data, size, new_size, f, g) ==
    IF new_size < size
    THEN Result(data, new_size, "ok", 0)
    ELSE Resize_NoReserve(data, size, new_size, f, g)

\* The throwing operations of the Reserve come first, the value
\* constructions after them.
Resize(data, size, new_size, f, g) ==
    IF new_size < size
    THEN Result(destroy_n(data, new_size, size - new_size), new_size, "ok", 0)
    ELSE LET nT == IF new_size > Len(data) /\ (~UsesMove \/ ~nothrow_move) THEN size ELSE 0
             r == Reserve(data, size, new_size, IF f <= nT THEN f ELSE 0, g)
         IN IF r.outcome # "ok"
            THEN r
            ELSE LET c == uninitialized_value_construct_n(r.data, size, new_size - size,
                                                          IF f > nT THEN f - nT ELSE 0)
                 IN IF c.thrown
                    THEN Result(c.dst, size, "value", r.leaked)
                    ELSE Result(c.dst, new_size, "ok", r.leaked)

\* Mutant: a full storage grows by one slot.
EmplaceBack_GrowsByOne(data, size, x, f, g) ==
    IF size = Len(data)
    THEN LET new_data == Allocate(size + 1)
         IN IF f = 1
            THEN Result(data, size, "new", LiveCount(new_data))
            ELSE LET built == [new_data EXCEPT ![size + 1] = x]
                     t == MoveOrCopyData(data, built, size, IF f = 0 THEN 0 ELSE f - 1, g)
                 IN IF t.thrown
                    THEN Result(t.src, size, "transfer", LiveCount(t.dst))
                    ELSE LET old == destroy_n(t.src, 0, size)
                         IN Result(t.dst, size + 1, "ok", LiveCount(old))
    ELSE IF f = 1
         THEN Result(data, size, "new", 0)
         ELSE Result([data EXCEPT ![size + 1] = x], size + 1, "ok", 0)

\* The new element is elementary operation 1, the transfers follow.
EmplaceBack(data, size, x, f, g) ==
    IF size = Len(data)
    THEN LET new_data == Allocate(IF size = 0 THEN 1 ELSE size * 2)
         IN IF f = 1
            THEN Result(data, size, "new", LiveCount(new_data))
            ELSE LET built == [new_data EXCEPT ![size + 1] = x]
                     t == MoveOrCopyData(data, built, size, IF f = 0 THEN 0 ELSE f - 1, g)
                 IN IF t.thrown
                    THEN Result(t.src, size, "transfer", LiveCount(t.dst))
                    ELSE LET old == destroy_n(t.src, 0, size)
                         IN Result(t.dst, size + 1, "ok", LiveCount(old))
    ELSE IF f = 1
         THEN Result(data, size, "new", 0)
         ELSE Result([data EXCEPT ![size + 1] = x], size + 1, "ok", 0)

PopBack(data, size) ==
    Result(destroy_n(data, size - 1, 1), size - 1, "ok", 0)

\* Mutant: the prefix is moved whatever the element type.
ReallocPrefix_AlwaysMove(data, built, index_, f, g) ==
    uninitialized_move_n(data, 0, index_, built, 0, f, g)

\* Lines 282-293: the transfer of the prefix [0, index_) and its handler.
ReallocPrefix(data, built, index_, f, g) ==
    IF UsesMove
    THEN uninitialized_move_n(data, 0, index_, built, 0, f, g)
    ELSE LET c == uninitialized_copy_n(data, 0, index_, built, 0, f, g)
         IN IF c.thrown
            THEN [c EXCEPT !.dst = destroy_n(c.dst, index_, 1)]
            ELSE c

\* Mutant: the suffix is moved whatever the element type.
ReallocSuffix_AlwaysMove(data, built, size, index_, f, g) ==
    uninitialized_move_n(data, index_, size - index_, built, index_ + 1, f, g)

\* Lines 294-305: the transfer of the suffix [index_, size) and its handler.
ReallocSuffix(data, built, size, index_, f, g) ==
    IF UsesMove
    THEN uninitialized_move_n(data, index_, size - index_, built, index_ + 1, f, g)
    ELSE LET c == uninitialized_copy_n(data, index_, size - index_, built, index_ + 1, f, g)
         IN IF c.thrown
            THEN [c EXCEPT !.dst = destroy_n(c.dst, 0, index_)]
            ELSE c

\* Elementary operation 1 is the new element, 2 .. index_ + 1 the prefix,
\* index_ + 2 .. size + 1 the suffix.
EmplaceRealloc(data, size, index_, x, f, g) ==
    LET new_data == Allocate(IF size = 0 THEN 1 ELSE size * 2)
    IN IF f = 1
       THEN Result(data, size, "new", LiveCount(new_data))
       ELSE LET built == [new_data EXCEPT ![index_ + 1] = x]
                p == ReallocPrefix(data, built, index_, IF f = 0 THEN 0 ELSE f - 1, g)
            IN IF p.thrown
               THEN Result(p.src, size, "prefix", LiveCount(p.dst))
               ELSE LET s == ReallocSuffix(p.src, p.dst, size, index_,
                                           IF f <= index_ + 1 THEN 0 ELSE f - 1 - index_, g)
                    IN IF s.thrown
                       THEN Result(s.src, size, "suffix", LiveCount(s.dst))
                       ELSE LET old == destroy_n(s.src, 0, size)
                            IN Result(s.dst, size + 1, "ok", LiveCount(old))

\* Line 319: the last element is move-constructed into slot size.
MoveLastUp(data, size, g) ==
    [i \in 1..Len(data) |->
       IF i - 1 = size THEN Load(data[size], g)
       ELSE IF i - 1 = size - 1 THEN Stored(data[i], MovedFrom)
       ELSE data[i]]

\* The elementary operations that may throw: when T's move may throw and
\* size # 0, 1 is the move construction of line 319 and 2 .. size - index_ + 1
\* the move assignments of move_backward; the new element is the last one.
EmplaceMove(data, size, index_, x, f, g) ==
    LET nMoves == IF size # 0 /\ ~nothrow_move THEN 1 + (size - index_) ELSE 0
    IN IF size # 0 /\ f = 1 /\ ~nothrow_move
       THEN Result(data, size, "move_last", 0)
       ELSE LET s == IF size # 0
                     THEN move_backward(MoveLastUp(data, size, g), index_, size, size + 1,
                                        IF f = 0 THEN 0 ELSE f - 1, g)
                     ELSE [thrown |-> FALSE, buf |-> data]
            IN IF s.thrown
               THEN Result(destroy_n(s.buf, size, 1), size, "shift", 0)
               ELSE LET vacated == IF size # 0 THEN destroy_n(s.buf, index_, 1) ELSE s.buf
                    IN IF f = nMoves + 1
                       THEN Result(vacated, size, "new", 0)
                       ELSE Result([vacated EXCEPT ![index_ + 1] = x], size + 1, "ok", 0)

Emplace(data, size, index_, x, f, g) ==
    IF size = Len(data)
    THEN EmplaceRealloc(data, size, index_, x, f, g)
    ELSE EmplaceMove(data, size, index_, x, f, g)

\* Insert(pos, value) with value a reference to element j of this Vector.
\* EmplaceRealloc builds the new element from *value first (line 281), while
\* the elements are as the caller left them.  EmplaceMove builds it last
\* (line 329), from whatever slot j holds after the shift; slot index_ has
\* been destroyed by then (line 327), so reading it yields h.
InsertAliased(data, size, index_, j, f, g, h) ==
    IF size = Len(data)
    THEN EmplaceRealloc(data, size, index_, Load(data[j + 1], g), f, g)
    ELSE LET r == EmplaceMove(data, size, index_, DefaultVal, f, g)
         IN IF r.outcome # "ok"
            THEN r
            ELSE Result([r.data EXCEPT ![index_ + 1] =
                           IF j = index_ THEN h ELSE Load(r.data[j + 1], h)],
                        r.size, "ok", 0)

\* Mutant: the last element is dropped without the shift.
Erase_NoShift(data, size, index_, f, g) ==
    PopBack(data, size)

Erase(data, size, index_, f, g) ==
    LET m == move(data, index_ + 1, size, index_, f, g)
    IN IF m.thrown
       THEN Result(m.buf, size, "shift", 0)
       ELSE PopBack(m.buf, size)

\* Vector(size_t size): value-constructs size elements.
VectorSized(size, f) ==
    LET c == uninitialized_value_construct_n(Allocate(size), 0, size, f)
    IN IF c.thrown
       THEN Result(<<>>, 0, "value", LiveCount(c.dst))
       ELSE Result(c.dst, size, "ok", 0)

\* Vector(const Vector& other): storage of exactly other.size_ slots.
VectorCopy(other, f, g) ==
    LET c == uninitialized_copy_n(other.data, 0, other.size, Allocate(other.size), 0, f, g)
    IN IF c.thrown
       THEN Result(<<>>, 0, "copy", LiveCount(c.dst))
       ELSE Result(c.dst, other.size, "ok", 0)

\* Mutant: the assignment always builds a copy and swaps, whatever the capacity.
CopyAssign_AlwaysCopies(data, size, other, f, g) ==
    LET rhs_copy == VectorCopy(other, f, g)
    IN IF rhs_copy.outcome # "ok"
       THEN Result(data, size, "copy", rhs_copy.leaked)
       ELSE Result(rhs_copy.data, rhs_copy.size, "ok", LiveCount(Destroy(data, size)))

\* Mutant: the receiver's elements are destroyed before the copy is built.
CopyAssign_DestroysFirst(data, size, other, f, g) ==
    LET rhs_copy == VectorCopy(other, f, g)
    IN IF rhs_copy.outcome # "ok"
       THEN Result(Destroy(data, size), 0, "copy", rhs_copy.leaked)
       ELSE Result(rhs_copy.data, rhs_copy.size, "ok", 0)

\* operator=(const Vector& rhs), this # &rhs.  On the reuse path the
\* constructions of the tail come first, the assignments after them.
CopyAssign(data, size, other, f, g) ==
    IF other.size > Len(data)
    THEN LET rhs_copy == VectorCopy(other, f, g)
         IN IF rhs_copy.outcome # "ok"
            THEN Result(data, size, "copy", rhs_copy.leaked)
            ELSE Result(rhs_copy.data, rhs_copy.size, "ok", LiveCount(Destroy(data, size)))
    ELSE LET tail == IF other.size <= size
                     THEN [thrown |-> FALSE,
                           dst |-> destroy_n(data, other.size, size - other.size)]
                     ELSE uninitialized_copy_n(other.data, size, other.size - size,
                                               data, size, f, g)
             copy_size == IF other.size <= size THEN other.size ELSE size
             made == IF other.size <= size THEN 0 ELSE other.size - size
         IN IF tail.thrown
            THEN Result(tail.dst, size, "copy", 0)
            ELSE LET c == copy_n(other.data, 0, copy_size, tail.dst, 0,
                                 IF f > made THEN f - made ELSE 0, g)
                 IN IF c.thrown
                    THEN Result(c.dst, size, "assign", 0)
                    ELSE Result(c.dst, other.size, "ok", 0)

\* Mutant: the two Vectors keep their own storage and size.
Swap_Nothing(a, b) == [this |-> a, other |-> b]

\* Swap(other): the two Vectors exchange storage and size.
Swap(a, b) == [this |-> b, other |-> a]

----------------------------------------------------------------------------
\* The inputs that matter in the current state.

This == [data |-> data_, size |-> size_]

\* What an undefined read may yield when the slots given are read; one value
\* when all of them are live.
GarbageOf(slots) == IF \E i \in slots : data_[i] = Dead THEN Objects ELSE {MovedFrom}

\* The same when every element [0, size) may be read.
Garbage == GarbageOf(1..size_)

\* The slots [0, size) all hold constructed elements.
AllLive == \A i \in 1..size_ : data_[i] # Dead

\* Whether a transfer into new storage may throw.
TransferThrows == ~UsesMove \/ ~nothrow_move

\* The capacity an append or insert grows to.
Grown == IF size_ = 0 THEN 1 ELSE size_ * 2

\* The Vectors an assignment takes as its right-hand side: one of each size,
\* its neighbouring elements different.
RhsVectors ==
    { [data |-> [i \in 1..k |-> ((i - 1) % NumVals) + 1], size |-> k] : k \in 0..MaxRhs }

\* An operation is called once the caller has gone on from the last one.
Ready == op = "none"

Apply(name, a, r, other) ==
    /\ data_' = r.data
    /\ size_' = r.size
    /\ op' = name
    /\ arg' = a
    /\ outcome' = r.outcome
    /\ leaked' = r.leaked
    /\ rhs' = other
    /\ UNCHANGED <<nothrow_move, copyable>>

DoReserve ==
    /\ Ready
    /\ \E n \in 0..MaxCap :
        \E g \in GarbageOf(IF n > Capacity THEN 1..size_ ELSE {}),
           f \in 0..(IF TransferThrows /\ n > Capacity THEN size_ ELSE 0) :
          Apply("Reserve", <<n>>, Reserve(data_, size_, n, f, g), NoVector)

DoResize ==
    /\ Ready
    /\ \E n \in 0..MaxCap :
        \E g \in GarbageOf(IF n > Capacity THEN 1..size_ ELSE {}),
           f \in 0..(IF n < size_ THEN 0
                     ELSE (IF n > Capacity /\ TransferThrows THEN size_ ELSE 0) + (n - size_)) :
          Apply("Resize", <<n>>, Resize(data_, size_, n, f, g), NoVector)

\* PushBack and EmplaceBack, while the storage stays within bound slots.
AppendWithin(bound) ==
    /\ Ready
    /\ size_ < Capacity \/ Grown <= bound
    /\ \E x \in Vals, g \in GarbageOf(IF size_ = Capacity THEN 1..size_ ELSE {}) :
        \E f \in 0..(IF TransferThrows /\ size_ = Capacity THEN size_ + 1 ELSE 1) :
          Apply("EmplaceBack", <<x>>, EmplaceBack(data_, size_, x, f, g), NoVector)

DoEmplaceBack == AppendWithin(MaxCap)

DoPopBack ==
    /\ Ready
    /\ size_ > 0
    /\ Apply("PopBack", <<>>, PopBack(data_, size_), NoVector)

\* Insert and Emplace at position begin() + index_, 0 <= index_ <= size_.
DoEmplace ==
    /\ Ready
    /\ size_ < Capacity \/ Grown <= MaxCap
    /\ \E index_ \in 0..size_, x \in Vals :
       \E g \in GarbageOf(IF size_ = Capacity THEN 1..size_
                          ELSE IF index_ = size_ THEN {size_} \ {0}
                          ELSE (index_ + 1)..size_) :
        \E f \in 0..(IF size_ = Capacity
                     THEN (IF TransferThrows THEN size_ + 1 ELSE 1)
                     ELSE (IF size_ # 0 /\ ~nothrow_move THEN size_ - index_ + 2 ELSE 1)) :
          Apply("Emplace", <<index_, x>>, Emplace(data_, size_, index_, x, f, g), NoVector)

\* v.Insert(v.begin() + index_, v[j]) on a Vector whose elements are all
\* live: the value is passed by reference.
DoInsertAliased ==
    /\ Ready
    /\ copyable
    /\ AllLive
    /\ size_ < Capacity \/ Grown <= MaxCap
    /\ \E index_ \in 0..size_, j \in 0..(size_ - 1) :
        \E g \in GarbageOf(IF size_ = Capacity THEN 1..size_
                           ELSE IF index_ = size_ THEN {size_}
                           ELSE (index_ + 1)..size_),
           h \in (IF size_ = Capacity THEN {MovedFrom}
                 ELSE IF j = index_ THEN Objects
                 ELSE GarbageOf({j + 1})) :
          \E f \in 0..(IF size_ = Capacity
                       THEN (IF TransferThrows THEN size_ + 1 ELSE 1)
                       ELSE (IF ~nothrow_move THEN size_ - index_ + 2 ELSE 1)) :
            Apply("Insert", <<index_, j>>,
                  InsertAliased(data_, size_, index_, j, f, g, h), NoVector)

\* Erase at position begin() + index_, 0 <= index_ < size_.
DoErase ==
    /\ Ready
    /\ \E index_ \in 0..(size_ - 1) :
       \E g \in GarbageOf((index_ + 2)..size_) :
        \E f \in 0..(IF nothrow_move THEN 0 ELSE size_ - index_ - 1) :
          Apply("Erase", <<index_>>, Erase(data_, size_, index_, f, g), NoVector)

\* Vector b(a): when it succeeds the Vector observed from here on is b, and
\* rhs is a; when it throws there is no b.
DoCopyConstruct ==
    /\ Ready
    /\ copyable
    /\ \E g \in Garbage, f \in 0..size_ :
        LET r == VectorCopy(This, f, g)
        IN IF r.outcome = "ok"
           THEN Apply("VectorCopy", <<>>, r, This)
           ELSE Apply("VectorCopy", <<>>, Result(data_, size_, r.outcome, r.leaked), NoVector)

\* Vector b(std::move(a)): b is default-constructed and swapped with a; the
\* Vector observed from here on is b, and rhs is a.
DoMoveConstruct ==
    /\ Ready
    /\ LET s == Swap(NoVector, This)
       IN Apply("VectorMove", <<>>, Result(s.this.data, s.this.size, "ok", 0), s.other)

DoCopyAssign ==
    /\ Ready
    /\ copyable
    /\ \E other \in RhsVectors, g \in GarbageOf({}) :
        \E f \in 0..other.size :
          Apply("CopyAssign", <<>>, CopyAssign(data_, size_, other, f, g), other)

\* v = v: the test this != &rhs fails and nothing is done.
DoCopyAssignSelf ==
    /\ Ready
    /\ copyable
    /\ Apply("CopyAssignSelf", <<>>, Result(data_, size_, "ok", 0), NoVector)

\* operator=(Vector&& rhs): Swap(rhs).
DoMoveAssign ==
    /\ Ready
    /\ \E other \in RhsVectors :
        LET s == Swap(This, other)
        IN Apply("MoveAssign", <<>>, Result(s.this.data, s.this.size, "ok", 0), s.other)

\* The element types: copyable with a move that may throw (transferred by
\* copy), copyable with a nothrow move, move-only with a nothrow move, and
\* move-only with a move that may throw (the last three are moved).
ElementType ==
    \/ copyable = TRUE /\ nothrow_move = FALSE
    \/ copyable = TRUE /\ nothrow_move = TRUE
    \/ copyable = FALSE /\ nothrow_move = TRUE
    \/ copyable = FALSE /\ nothrow_move = FALSE

\* The state after Vector() or Vector(size).
Init ==
    /\ ElementType
    /\ \E n \in 0..MaxRhs :
         /\ data_ = VectorSized(n, 0).data
         /\ size_ = VectorSized(n, 0).size
    /\ op = "Vector"
    /\ arg = <<>>
    /\ outcome = "ok"
    /\ leaked = 0
    /\ rhs = NoVector

\* The caller has seen how the last operation ended and goes on: the record
\* of that call is dropped, the Vector stays as it is.
Continue ==
    /\ op # "none"
    /\ op' = "none"
    /\ arg' = <<>>
    /\ outcome' = "ok"
    /\ leaked' = 0
    /\ rhs' = NoVector
    /\ UNCHANGED <<nothrow_move, copyable, data_, size_>>

Next ==
    \/ DoReserve
    \/ DoResize
    \/ DoEmplaceBack
    \/ DoPopBack
    \/ DoEmplace
    \/ DoInsertAliased
    \/ DoErase
    \/ DoCopyConstruct
    \/ DoMoveConstruct
    \/ DoCopyAssign
    \/ DoCopyAssignSelf
    \/ DoMoveAssign
    \/ Continue

Spec == Init /\ [][Next]_vars

\* Appends alone, to a default-constructed Vector.
InitAppend ==
    /\ ElementType
    /\ data_ = <<>>
    /\ size_ = 0
    /\ op = "Vector"
    /\ arg = <<>>
    /\ outcome = "ok"
    /\ leaked = 0
    /\ rhs = NoVector

DoAppend == AppendWithin(MaxAppendCap)

NextAppend ==
    \/ DoAppend
    \/ Continue

SpecAppend == InitAppend /\ [][NextAppend]_vars

----------------------------------------------------------------------------
\* The properties.

Threw == outcome # "ok"

\* The element values, in order.
Elems == SubSeq(data_, 1, size_)

\* C1: between operations, slots [0, size) hold live elements and slots
\* [size, capacity) hold none.  The in-place Insert whose new element throws
\* and the copy assignment whose element assignment throws break it.
C1_LiveSlotsAreTheFirstSize ==
    \A i \in 1..Len(data_) : (data_[i] # Dead) <=> (i <= size_)

\* C2: size <= capacity in every state, after successes and failures alike.
C2_SizeWithinCapacity == size_ <= Len(data_)

C2_Witness ==
    /\ op = "Resize" /\ outcome = "value"
    /\ size_ > 0 /\ size_ < Len(data_)

\* C3: for a type that is copy-constructible or nothrow-movable, an append
\* that fails leaves the storage, the size and every element as they were.
C3_FailedAppendChangesNothing ==
    [][(op' = "EmplaceBack" /\ outcome' # "ok" /\ (copyable \/ nothrow_move))
         => (data_' = data_ /\ size_' = size_)]_vars

C3_Witness ==
    /\ op = "EmplaceBack" /\ outcome = "transfer"
    /\ copyable /\ size_ >= 2 /\ C1_LiveSlotsAreTheFirstSize

\* C4: an Insert/Emplace whose new element's construction throws leaves
\* size, capacity and elements unchanged, on both paths.
C4_FailedInsertConstructionChangesNothing ==
    [][(op' = "Emplace" /\ outcome' = "new") => (data_' = data_ /\ size_' = size_)]_vars

\* C5 as claimed: on the reallocation path of Insert/Emplace, a transfer of
\* the prefix or of the suffix that throws leaves storage, size and elements
\* unmodified, whatever the element type.
C5_FailedTransferChangesNothing ==
    [][(op' = "Emplace" /\ outcome' \in {"prefix", "suffix"})
         => (data_' = data_ /\ size_' = size_)]_vars

\* C5 as amended: the same for a copy-constructible element type, whose
\* elements are transferred by copy when their move may throw.
C5_FailedCopyTransferChangesNothing ==
    [][(op' = "Emplace" /\ outcome' \in {"prefix", "suffix"} /\ copyable)
         => (data_' = data_ /\ size_' = size_)]_vars

C5_Witness ==
    /\ op = "Emplace" /\ outcome = "suffix"
    /\ copyable /\ size_ >= 2 /\ arg[1] = 1 /\ C1_LiveSlotsAreTheFirstSize

\* C6: when a transfer of the reallocating Insert/Emplace fails, no object
\* constructed in the new storage is alive when that storage is released.
C6_FailedTransferLeavesNothingAlive ==
    (op = "Emplace" /\ outcome \in {"prefix", "suffix"}) => leaked = 0

\* C7 as claimed: a Reserve whose transfer throws leaves storage, capacity,
\* size and elements intact and nothing alive in the discarded storage,
\* whatever the element type.
C7_FailedReserveChangesNothing ==
    [][(op' = "Reserve" /\ outcome' = "transfer")
         => (data_' = data_ /\ size_' = size_ /\ leaked' = 0)]_vars

\* C7 as amended: the same for a copy-constructible element type.
C7_FailedCopyReserveChangesNothing ==
    [][(op' = "Reserve" /\ outcome' = "transfer" /\ copyable)
         => (data_' = data_ /\ size_' = size_ /\ leaked' = 0)]_vars

C7_Witness ==
    /\ op = "Reserve" /\ outcome = "transfer"
    /\ copyable /\ size_ >= 2 /\ arg[1] > Len(data_) /\ C1_LiveSlotsAreTheFirstSize

\* C8: a Reserve(n) that returns changes nothing when n <= capacity; when
\* n > capacity the capacity becomes n, and the size and every live element
\* stay as they were.
C8_ReserveFrame ==
    [][(op' = "Reserve" /\ outcome' = "ok")
         => IF arg'[1] <= Len(data_)
            THEN data_' = data_ /\ size_' = size_
            ELSE /\ Len(data_') = arg'[1]
                 /\ size_' = size_
                 /\ \A i \in 1..size_ : data_[i] # Dead => data_'[i] = data_[i]]_vars

C8_Witness ==
    /\ op = "Reserve" /\ outcome = "ok"
    /\ size_ = 2 /\ Len(data_) = 3 /\ arg[1] = 3 /\ data_[1] # data_[2]
    /\ C1_LiveSlotsAreTheFirstSize

\* The smallest power of two >= n, from 1.
RECURSIVE PowerOfTwoFrom(_, _)
PowerOfTwoFrom(p, n) == IF p >= n THEN p ELSE PowerOfTwoFrom(2 * p, n)

\* C9: after n appends that returned, to a default-constructed Vector, the
\* size is n and the capacity is 0 for n = 0 and else the smallest power of
\* two >= n; each append adds one to the size and grows a full storage from
\* capacity c to max(1, 2 * c).
C9_AppendsDouble ==
    /\ [](Len(data_) = IF size_ = 0 THEN 0 ELSE PowerOfTwoFrom(1, size_))
    /\ [][(op' = "EmplaceBack" /\ outcome' = "ok")
            => /\ size_' = size_ + 1
               /\ Len(data_') = IF size_ < Len(data_) THEN Len(data_)
                                ELSE IF Len(data_) = 0 THEN 1 ELSE 2 * Len(data_)]_vars
    /\ [][(op' = "EmplaceBack" /\ outcome' # "ok")
            => (size_' = size_ /\ Len(data_') = Len(data_))]_vars

C9_Witness ==
    op = "EmplaceBack" /\ outcome = "ok" /\ size_ = 5 /\ Len(data_) = 8

\* C10: an append that returns puts its value after the elements, which keep
\* their values and order through every reallocation, by copy or by move:
\* the values read back after N appends are the N values appended, in order.
C10_AppendsKeepValuesInOrder ==
    [][(op' = "EmplaceBack" /\ outcome' = "ok") => Elems' = Elems \o arg']_vars

C10_Witness ==
    /\ op = "EmplaceBack" /\ outcome = "ok"
    /\ size_ = 5 /\ Elems = <<1, 2, 2, 1, 2>>

\* The elements after value x is put at index i.
InsertedAt(s, i, x) == SubSeq(s, 1, i) \o <<x>> \o SubSeq(s, i + 1, Len(s))

\* C11: an Insert/Emplace of x at index i (0 <= i <= size) that returns
\* leaves e0 .. e(i-1), x, e(i) .. e(n-1) and size n + 1, whether it shifts
\* in place or reallocates.
C11_InsertPutsValueAtIndex ==
    [][(op' = "Emplace" /\ outcome' = "ok" /\ AllLive)
         => /\ size_' = size_ + 1
            /\ Elems' = InsertedAt(Elems, arg'[1], arg'[2])]_vars

\* C12: an Erase at index i (0 <= i < size) that returns leaves
\* e0 .. e(i-1), e(i+1) .. e(n-1): the later elements move down by one in
\* order, the size drops by exactly one and the capacity stays.
C12_EraseRemovesOneElement ==
    [][(op' = "Erase" /\ outcome' = "ok" /\ AllLive)
         => /\ size_' = size_ - 1
            /\ Len(data_') = Len(data_)
            /\ Elems' = SubSeq(Elems, 1, arg'[1]) \o SubSeq(Elems, arg'[1] + 2, size_)]_vars

C12_Witness ==
    /\ op = "Erase" /\ outcome = "ok" /\ arg[1] = 0
    /\ size_ = 2 /\ Elems = <<2, 1>> /\ Len(data_) = 4
    /\ C1_LiveSlotsAreTheFirstSize

\* C13: a Resize(n) that returns ends with size = n.  For n < size the
\* elements [n, size) are destroyed and the elements [0, n) and the capacity
\* stay; for n > size the elements [0, size) stay, the capacity is >= n and
\* the new elements [size, n) hold the default value.
C13_ResizeFrame ==
    [][(op' = "Resize" /\ outcome' = "ok")
         => /\ size_' = arg'[1]
            /\ IF arg'[1] < size_
               THEN /\ Len(data_') = Len(data_)
                    /\ \A i \in 1..arg'[1] : data_'[i] = data_[i]
                    /\ \A i \in (arg'[1] + 1)..size_ : data_'[i] = Dead
               ELSE /\ Len(data_') >= arg'[1]
                    /\ \A i \in 1..size_ : data_[i] # Dead => data_'[i] = data_[i]
                    /\ \A i \in (size_ + 1)..arg'[1] : data_'[i] = DefaultVal]_vars

\* A Resize that grew past the capacity.
C13_Witness ==
    /\ op = "Resize" /\ outcome = "ok" /\ arg[1] = 4
    /\ size_ = 4 /\ Elems = <<2, 1, 1, 1>>

\* A Resize that shrank.
C13_WitnessShrink ==
    /\ op = "Resize" /\ outcome = "ok" /\ arg[1] = 1
    /\ size_ = 1 /\ data_ = <<2, Dead, Dead>>

\* C14 as stated: after a move construction and after a move assignment
\* alike, the source is empty (size 0, capacity 0) and the destination holds
\* exactly the elements, size and capacity the source had.
C14_MoveLeavesSourceEmpty ==
    /\ [][(op' = "VectorMove")
            => /\ data_' = data_ /\ size_' = size_
               /\ rhs'.size = 0 /\ Len(rhs'.data) = 0]_vars
    /\ [][(op' = "MoveAssign")
            => /\ rhs'.size = 0 /\ Len(rhs'.data) = 0
               /\ \E other \in RhsVectors : data_' = other.data /\ size_' = other.size]_vars

\* C14 as amended: a move construction leaves the source empty and gives the
\* destination the source's storage, size and elements; a move assignment
\* gives the destination the source's and leaves the source with what the
\* destination held, so the source is empty only if the destination was.
C14_MoveTransfersOrSwaps ==
    /\ [][(op' = "VectorMove")
            => /\ data_' = data_ /\ size_' = size_
               /\ rhs'.size = 0 /\ Len(rhs'.data) = 0]_vars
    /\ [][(op' = "MoveAssign")
            => /\ rhs' = This
               /\ \E other \in RhsVectors : data_' = other.data /\ size_' = other.size]_vars

\* A move assignment to a Vector that held elements.
C14_Witness ==
    /\ op = "MoveAssign" /\ outcome = "ok"
    /\ size_ = 2 /\ rhs.size = 2 /\ Len(rhs.data) = 4

\* The elements of a Vector given as a record.
ElemsOf(v) == SubSeq(v.data, 1, v.size)

\* C15: a copy assignment that returns makes the receiver's size and element
\* values equal to the source's and leaves the source as it was; when the
\* source's size is <= the receiver's capacity the storage is reused and the
\* capacity stays, otherwise the capacity becomes exactly the source's size.
C15_CopyAssignCopies ==
    [][(op' = "CopyAssign" /\ outcome' = "ok" /\ AllLive)
         => /\ size_' = rhs'.size
            /\ Elems' = ElemsOf(rhs')
            /\ rhs' \in RhsVectors
            /\ Len(data_') = IF rhs'.size <= Len(data_) THEN Len(data_) ELSE rhs'.size]_vars

\* An assignment into reused storage of capacity 3.
C15_Witness ==
    /\ op = "CopyAssign" /\ outcome = "ok"
    /\ rhs.size = 2 /\ Len(data_) = 3 /\ Elems = <<1, 2>> /\ leaked = 0
    /\ C1_LiveSlotsAreTheFirstSize

\* C16: a copy assignment from a source with more elements than the
\* receiver's capacity is all-or-nothing: either the receiver ends equal to
\* the source, or a copy threw, the receiver's storage, size and elements are
\* as before and nothing built for the copy is left alive.
C16_GrowingCopyAssignAllOrNothing ==
    [][(op' = "CopyAssign" /\ rhs'.size > Len(data_))
         => IF outcome' = "ok"
            THEN data_' = ElemsOf(rhs') /\ size_' = rhs'.size
            ELSE data_' = data_ /\ size_' = size_ /\ leaked' = 0]_vars

C16_Witness ==
    /\ op = "CopyAssign" /\ outcome = "copy"
    /\ rhs.size = 2 /\ Len(data_) = 1 /\ size_ = 1
    /\ C1_LiveSlotsAreTheFirstSize

\* C17: in Reserve (alone or from Resize), a growing append and a growing
\* positional insert, the elements are moved into the new storage only if
\* T's move cannot throw or T is not copy-constructible, and are copied
\* otherwise.  Seen from a transfer that threw: the move of such a type
\* cannot be what threw, a copied type has no element changed in the old
\* storage, and an element left moved-from means the type is one that is
\* moved.
C17_TransferMovesOnlyWhenAllowed ==
    [][(outcome' \in {"transfer", "prefix", "suffix"})
         => /\ op' \in {"Reserve", "Resize", "EmplaceBack", "Emplace", "Insert"}
            /\ ~(nothrow_move /\ copyable)
            /\ (copyable /\ ~nothrow_move) => (data_' = data_ /\ size_' = size_)
            /\ (\E i \in 1..size_ : data_[i] \in Vals /\ data_'[i] = MovedFrom)
                 => (nothrow_move \/ ~copyable)]_vars

\* The copy of the prefix of a growing insert threw for a copied type.
C17_Witness ==
    /\ op = "Emplace" /\ outcome = "prefix"
    /\ copyable /\ ~nothrow_move /\ size_ = 2 /\ Len(data_) = 2
    /\ C1_LiveSlotsAreTheFirstSize

\* The move of a move-only type threw and left an element moved-from.
C17_WitnessMoved ==
    /\ op = "Reserve" /\ outcome = "transfer"
    /\ ~copyable /\ size_ = 2 /\ data_[1] = MovedFrom /\ data_[2] \in Vals

\* C18: on the in-place path (0 < size < capacity), for a type whose
\* moved-from value is distinguishable, after an insert at index i in
\* [0, size] that returns no slot in [0, new size) holds a moved-from value,
\* and the old last element's value is at the new last slot, or at its own
\* slot when i = size.
C18_InPlaceInsertLosesNothing ==
    [][(/\ op' = "Emplace" /\ outcome' = "ok"
        /\ size_ > 0 /\ size_ < Len(data_)
        /\ \A i \in 1..size_ : data_[i] \in Vals)
         => /\ \A i \in 1..size_' : data_'[i] # MovedFrom
            /\ IF arg'[1] = size_
               THEN data_'[size_] = data_[size_]
               ELSE data_'[size_'] = data_[size_]]_vars

\* C19: when the transfer of a growing append throws, the new element built
\* in the new storage is destroyed before that storage is released: no
\* constructed object is left without its destructor run.
C19_FailedAppendDestroysNewElement ==
    (op = "EmplaceBack" /\ outcome = "transfer") => leaked = 0

\* C20: Insert(pos, value) where value refers to a live element j of the
\* same Vector inserts the value that element held before the call, for
\* every insertion index and every j, in place and with reallocation.
C20_AliasedInsertUsesOldValue ==
    [][(op' = "Insert" /\ outcome' = "ok" /\ AllLive)
         => data_'[arg'[1] + 1] = data_[arg'[2] + 1]]_vars

====
